---- MODULE Spec2Model ----
(***************************************************************************)
(* Model of the proxy-address derivation of the prediction SDK             *)
(* (packages/polymarket/src/safe.ts): the address codec (encodeAddress,    *)
(* decodeAddress), the selector, the JSON-RPC transport (postJsonRpc) and  *)
(* the orchestration (getSafeProxyAddress).                                *)
(*                                                                         *)
(* Strings that the code inspects character by character (addresses, call  *)
(* data, RPC results) are sequences of one-character strings; strings the  *)
(* code only passes around (URLs, signatures, error messages) are TLA+     *)
(* strings.                                                                *)
(***************************************************************************)
EXTENDS Integers, Sequences, FiniteSets, TLC

\* ------------------------------------------------------------------ bounds
\* number of getSafeProxyAddress calls that may be in flight
NumCalls == 2
\* number of hex digits of the longest address digit string fed to the codec
MaxDigits == 66
\* longest seed pattern from which codec inputs are built
MaxSeedLen == 2

\* ------------------------------------------------- JavaScript string model
Max(a, b) == IF a >= b THEN a ELSE b

Min(a, b) == IF a <= b THEN a ELSE b

\* n copies of the character ch
Rep(ch, n) == [i \in 1..n |-> ch]

\* String.prototype.toLowerCase on one character (ASCII letters of the model)
LowerChar(ch) ==
  CASE ch = "A" -> "a"
    [] ch = "B" -> "b"
    [] ch = "C" -> "c"
    [] ch = "D" -> "d"
    [] ch = "E" -> "e"
    [] ch = "F" -> "f"
    [] ch = "X" -> "x"
    [] OTHER -> ch

\* String.prototype.toLowerCase
toLowerCase(s) == [i \in 1..Len(s) |-> LowerChar(s[i])]

\* s.replace(/^0x/, ""): removes one leading, case-sensitive "0x"
replace0x(s) ==
  IF Len(s) >= 2 /\ s[1] = "0" /\ s[2] = "x" THEN SubSeq(s, 3, Len(s)) ELSE s

\* s.padStart(n, ch): pads on the left up to length n, never truncates
padStart(s, n, ch) == IF Len(s) >= n THEN s ELSE Rep(ch, n - Len(s)) \o s

\* s.slice(-n): the last n characters, the whole string when shorter
sliceLast(s, n) == SubSeq(s, Max(Len(s) - n, 0) + 1, Len(s))

\* s.slice(0, n): the first n characters
sliceFirst(s, n) == SubSeq(s, 1, Min(n, Len(s)))

\* ------------------------------------------------------- program constants
\* width of an ABI word in hex characters (padStart(64, "0"))
WordHexLen == 64
\* width of an address in hex characters (slice(-40))
AddrHexLen == 40
\* width of "0x" plus a 4-byte selector (hash.slice(0, 10))
SelectorLen == 10

SAFE_PROXY_FACTORY_ADDRESS == "0xaacFeEa03eb1561C4e67d661e40682Bd20E3541b"

COMPUTE_PROXY_ADDRESS_FUNCTION_SIGNATURE == "computeProxyAddress(address)"

ERROR_CODES ==
  [RPC_REQUEST_FAILED |-> "RPC_REQUEST_FAILED",
   RPC_RESPONSE_EMPTY |-> "RPC_RESPONSE_EMPTY",
   RPC_ERROR          |-> "RPC_ERROR",
   RPC_INVALID_RESULT |-> "RPC_INVALID_RESULT"]

\* ------------------------------------------------------------------- codec
\* variant: the letter case of the address is kept
encodeAddressKeepCase(address) ==
  LET cleanAddress == replace0x(address)
  IN  padStart(cleanAddress, WordHexLen, "0")

\* ABI-encodes an address as a 32-byte hex string (no 0x prefix).
encodeAddress(address) ==
  LET cleanAddress == replace0x(toLowerCase(address))
  IN  padStart(cleanAddress, WordHexLen, "0")

\* variant: keeps the first 40 characters instead of the last
decodeAddressHead(hexResult) ==
  LET cleanHex   == replace0x(hexResult)
      addressHex == sliceFirst(cleanHex, AddrHexLen)
  IN  <<"0", "x">> \o addressHex

\* variant: the cleaned result is returned without slicing
decodeAddressWhole(hexResult) ==
  LET cleanHex == replace0x(hexResult)
  IN  <<"0", "x">> \o cleanHex

\* Decodes the last 20 bytes of a hex result into an address.
decodeAddress(hexResult) ==
  LET cleanHex   == replace0x(hexResult)
      addressHex == sliceLast(cleanHex, AddrHexLen)
  IN  <<"0", "x">> \o addressHex

\* ---------------------------------------------------------------- selector
\* the sixteen hex digits of the hash fixture
HashDigits ==
  <<"1", "2", "3", "4", "5", "6", "7", "8", "9", "0", "a", "b", "c", "d", "e", "f">>

\* keccak-256 digests of further signatures, as ethers.id returns them
Keccak256 ==
     "" :>
     <<"c", "5", "d", "2", "4", "6", "0", "1", "8", "6", "f", "7", "2", "3", "3", "c",
       "9", "2", "7", "e", "7", "d", "b", "2", "d", "c", "c", "7", "0", "3", "c", "0",
       "e", "5", "0", "0", "b", "6", "5", "3", "c", "a", "8", "2", "2", "7", "3", "b",
       "7", "b", "f", "a", "d", "8", "0", "4", "5", "d", "8", "5", "a", "4", "7", "0">>
  @@ "balanceOf(address)" :>
     <<"7", "0", "a", "0", "8", "2", "3", "1", "b", "9", "8", "e", "f", "4", "c", "a",
       "2", "6", "8", "c", "9", "c", "c", "3", "f", "6", "b", "4", "5", "9", "0", "e",
       "4", "b", "f", "e", "c", "2", "8", "2", "8", "0", "d", "b", "0", "6", "b", "b",
       "5", "d", "4", "5", "e", "6", "8", "9", "f", "2", "a", "3", "6", "0", "b", "e">>
  @@ "approve(address,uint256)" :>
     <<"0", "9", "5", "e", "a", "7", "b", "3", "3", "4", "a", "e", "4", "4", "0", "0",
       "9", "a", "a", "8", "6", "7", "b", "f", "b", "3", "8", "6", "f", "5", "c", "3",
       "b", "4", "b", "4", "4", "3", "a", "c", "6", "f", "0", "e", "e", "5", "7", "3",
       "f", "a", "9", "1", "c", "4", "6", "0", "8", "f", "b", "a", "d", "f", "b", "a">>
  @@ "setApprovalForAll(address,bool)" :>
     <<"a", "2", "2", "c", "b", "4", "6", "5", "1", "a", "b", "9", "5", "7", "0", "f",
       "8", "9", "b", "b", "5", "1", "6", "3", "8", "0", "c", "4", "0", "c", "e", "7",
       "6", "7", "6", "2", "2", "8", "4", "f", "b", "1", "f", "2", "1", "3", "3", "7",
       "c", "e", "a", "f", "6", "a", "d", "a", "b", "9", "9", "e", "7", "d", "4", "a">>
  @@ "isApprovedForAll(address,address)" :>
     <<"e", "9", "8", "5", "e", "9", "c", "5", "c", "6", "6", "3", "6", "c", "6", "8",
       "7", "9", "2", "5", "6", "0", "0", "1", "0", "5", "7", "b", "2", "8", "c", "c",
       "a", "c", "7", "7", "1", "8", "e", "f", "0", "a", "c", "5", "6", "5", "5", "3",
       "f", "f", "9", "b", "9", "2", "6", "4", "5", "2", "c", "a", "b", "8", "a", "3">>
  @@ "totalSupply()" :>
     <<"1", "8", "1", "6", "0", "d", "d", "d", "7", "f", "1", "5", "c", "7", "2", "5",
       "2", "8", "c", "2", "f", "9", "4", "f", "d", "8", "d", "f", "e", "3", "c", "8",
       "d", "5", "a", "a", "2", "6", "e", "2", "c", "5", "0", "c", "7", "d", "8", "1",
       "f", "4", "b", "c", "7", "b", "e", "e", "8", "d", "4", "b", "7", "9", "3", "2">>
  @@ "owner()" :>
     <<"8", "d", "a", "5", "c", "b", "5", "b", "3", "6", "e", "7", "f", "6", "8", "c",
       "1", "d", "2", "e", "5", "6", "0", "0", "1", "2", "2", "0", "c", "d", "b", "d",
       "d", "3", "b", "a", "2", "6", "1", "6", "0", "7", "2", "f", "7", "1", "8", "a",
       "c", "f", "d", "a", "4", "a", "0", "6", "4", "4", "1", "a", "8", "0", "7", "d">>
  @@ "name()" :>
     <<"0", "6", "f", "d", "d", "e", "0", "3", "8", "3", "f", "1", "5", "d", "5", "8",
       "2", "d", "1", "a", "7", "4", "5", "1", "1", "4", "8", "6", "c", "9", "d", "d",
       "f", "8", "6", "2", "a", "8", "8", "2", "f", "b", "7", "9", "0", "4", "b", "3",
       "d", "9", "f", "e", "9", "b", "8", "b", "8", "e", "5", "8", "a", "7", "9", "6">>
  @@ "decimals()" :>
     <<"3", "1", "3", "c", "e", "5", "6", "7", "a", "d", "d", "4", "d", "4", "3", "8",
       "e", "d", "f", "5", "8", "b", "9", "4", "f", "f", "3", "4", "5", "d", "7", "d",
       "3", "8", "c", "4", "5", "b", "1", "7", "d", "f", "c", "0", "f", "9", "4", "7",
       "9", "8", "8", "d", "7", "8", "1", "9", "d", "c", "a", "3", "6", "4", "f", "9">>

\* ethers.id: keccak-256 of the signature as "0x" and 64 hex digits.  The
\* hash is a library function; the model tabulates it on the signatures in
\* use (the default one carries the digest of the repository's test fixture).
ethersId(functionSignature) ==
  IF functionSignature = COMPUTE_PROXY_ADDRESS_FUNCTION_SIGNATURE
  THEN <<"0", "x">> \o HashDigits \o HashDigits \o HashDigits \o HashDigits
  ELSE IF functionSignature \in DOMAIN Keccak256
  THEN <<"0", "x">> \o Keccak256[functionSignature]
  ELSE <<"0", "x">> \o <<"a", "9", "0", "5", "9", "c", "b", "b">> \o Rep("7", 56)

\* variant: the hash is cut after 8 characters, prefix included
getFunctionSelectorShort(functionSignature) ==
  LET hash == ethersId(functionSignature)
  IN  sliceFirst(hash, 8)

\* Returns the 4-byte selector for an ABI function signature.
getFunctionSelector(functionSignature) ==
  LET hash == ethersId(functionSignature)
  IN  sliceFirst(hash, SelectorLen)

\* -------------------------------------------------------------------- JSON
\* the characters of a sequence joined into one string
RECURSIVE Text(_)
Text(s) == IF s = <<>> THEN "" ELSE Head(s) \o Text(Tail(s))

JString(s) == [type |-> "string", s |-> s]

JNumber(n) == [type |-> "number", n |-> n]

JArray(items) == [type |-> "array", items |-> items]

\* an object is the sequence of its <<key, value>> entries in insertion order
JObject(entries) == [type |-> "object", entries |-> entries]

\* JSON.stringify: members in insertion order, no white space
RECURSIVE JSONstringify(_)
JSONstringify(v) ==
  LET RECURSIVE Items(_)
      Items(xs) ==
        IF xs = <<>> THEN ""
        ELSE JSONstringify(Head(xs))
             \o (IF Len(xs) > 1 THEN "," ELSE "") \o Items(Tail(xs))
      RECURSIVE Entries(_)
      Entries(es) ==
        IF es = <<>> THEN ""
        ELSE "\"" \o Head(es)[1] \o "\":" \o JSONstringify(Head(es)[2])
             \o (IF Len(es) > 1 THEN "," ELSE "") \o Entries(Tail(es))
  IN  CASE v.type = "string" -> "\"" \o v.s \o "\""
        [] v.type = "number" -> ToString(v.n)
        [] v.type = "array"  -> "[" \o Items(v.items) \o "]"
        [] v.type = "object" -> "{" \o Entries(v.entries) \o "}"

\* ------------------------------------------------------------------ inputs
Calls == 1..NumCalls

RpcUrl == "https://rpc.example"

\* an optional string property of the options argument
Unset == [set |-> FALSE, val |-> ""]

Given(v) == [set |-> TRUE, val |-> v]

NoOptions == [safeProxyFactoryAddress |-> Unset, functionSignature |-> Unset]

CustomOptions ==
  [safeProxyFactoryAddress |-> Given("0x1111111111111111111111111111111111111111"),
   functionSignature       |-> Given("proxyFor(address)")]

\* owner of the test fixture: mixed case, 20 bytes
OwnerFixture == <<"0", "x", "A", "b", "C">> \o Rep("0", 34) \o <<"D", "e", "F">>

\* owner of the error test: three digits
OwnerShort == <<"0", "x", "a", "b", "c">>

\* the arguments of the calls the model makes
CallArgs ==
  { [rpcUrl |-> RpcUrl, walletAddress |-> OwnerFixture, options |-> NoOptions],
    [rpcUrl |-> RpcUrl, walletAddress |-> OwnerShort,   options |-> CustomOptions] }

\* the 40 digits of the address in the result fixture
ProxyDigits ==
  Rep("1", 4) \o Rep("2", 4) \o Rep("3", 4) \o Rep("4", 4) \o Rep("5", 4)
  \o Rep("6", 4) \o Rep("7", 4) \o Rep("8", 4) \o Rep("9", 4) \o Rep("0", 4)

Ox == <<"0", "x">>

\* result strings a node may answer with
ResultStrings ==
  { <<>>,                                       \* empty string
    Ox,                                         \* prefix only
    Ox \o <<"a", "b", "c">>,                    \* shorter than an address
    <<"a", "b", "c">>,                          \* the same without prefix
    Ox \o Ox \o <<"a", "b">>,                   \* two prefixes
    <<"0", "X", "a", "b">>,                     \* upper-case prefix
    Ox \o ProxyDigits,                          \* exactly 20 bytes
    Ox \o Rep("0", 24) \o ProxyDigits }         \* the 32-byte word of the fixture

\* the error member of a response: absent, null, or an object with a code
NoError == [kind |-> "absent", code |-> 0]

NullError == [kind |-> "null", code |-> 0]

ErrorObject(c) == [kind |-> "object", code |-> c]

\* the result member of a response: absent, a string, or (untyped) a number
NoResult == [kind |-> "absent", str |-> <<>>]

StringResult(s) == [kind |-> "string", str |-> s]

NumberResult == [kind |-> "number", str |-> <<>>]

ObjectBody(e, r) == [kind |-> "object", error |-> e, result |-> r]

\* a body response.json() rejects: missing, empty or malformed
InvalidBody == [kind |-> "invalid", error |-> NoError, result |-> NoResult]

\* the JSON text null
NullBody == [kind |-> "null", error |-> NoError, result |-> NoResult]

\* a JSON number, string or boolean
PrimitiveBody == [kind |-> "primitive", error |-> NoError, result |-> NoResult]

WordResult == StringResult(Ox \o Rep("0", 24) \o ProxyDigits)

Bodies ==
  {InvalidBody, NullBody, PrimitiveBody}
  \cup {ObjectBody(NoError, StringResult(s)) : s \in ResultStrings}
  \cup {ObjectBody(NoError, NoResult), ObjectBody(NoError, NumberResult)}
  \cup {ObjectBody(NullError, WordResult)}
  \cup {ObjectBody(ErrorObject(-32000), NoResult),
        ObjectBody(ErrorObject(-32000), WordResult),
        ObjectBody(ErrorObject(0), NoResult)}

\* HTTP responses: every body with an ok status, two bodies with a failing one
Responses ==
  {[received |-> TRUE, ok |-> TRUE, body |-> b] : b \in Bodies}
  \cup {[received |-> TRUE, ok |-> FALSE, body |-> b] :
          b \in {ObjectBody(NoError, WordResult),
                 ObjectBody(ErrorObject(-32000), NoResult)}}

\* ------------------------------------------------------------------- state
VARIABLES
  pc,        \* per call: "idle", "awaitFetch", "awaitJson" or "done"
  args,      \* per call: the arguments of getSafeProxyAddress
  sent,      \* per call: the HTTP requests handed to fetch, in order
  response,  \* per call: the HTTP response fetch resolved with
  parsed,    \* per call: response.json() was invoked
  decoded,   \* per call: decodeAddress was invoked
  outcome,   \* per call: the settled promise of getSafeProxyAddress
  codecPc,   \* codec run: "off", "input", "encoded" or "decoded"
  codecIn,   \* codec run: the address string
  codecWord, \* codec run: encodeAddress(codecIn)
  codecOut   \* codec run: decodeAddress(codecWord)

callVars == <<pc, args, sent, response, parsed, decoded, outcome>>

codecVars == <<codecPc, codecIn, codecWord, codecOut>>

VARIABLES
  probePc,        \* per probe: "idle", "awaitCode" or "done"
  probeArgs,      \* per probe: the arguments of isGnosisSafe
  probeProviders, \* per probe: the RPC URLs a provider was built for
  probeQueries,   \* per probe: the getCode calls made
  probeCode,      \* per probe: the code getCode resolved with
  probeOutcome    \* per probe: the settled promise of isGnosisSafe

probeVars ==
  <<probePc, probeArgs, probeProviders, probeQueries, probeCode, probeOutcome>>

VARIABLES
  selPc,     \* per selector run: "off", "idle" or "done"
  selSig,    \* per selector run: the function signature
  selOut     \* per selector run: getFunctionSelector(selSig)

selVars == <<selPc, selSig, selOut>>

VARIABLES
  build,        \* which copy of the Polymarket class runs: "root" or "package"
  client,       \* this.client of the Polymarket instance
  apPc,         \* approvalAll: "idle", "awaitFeeData", "awaitSubmit",
                \*   "awaitReceipt", "awaitRecheck" or "done"
  apFee,        \* approvalAll: feeData.gasPrice as getFeeData resolved it
  apSubmitted,  \* approvalAll: the setApprovalForAll calls made, in order
  apReceipts,   \* approvalAll: the receipt statuses tx.wait() resolved with
  apRechecks,   \* approvalAll: the isApprovedForAll calls made, in order
  apApprovals,  \* approvalAll: the flags isApprovedForAll resolved with
  apOutcome     \* approvalAll: the settled promise

approvalVars ==
  <<apPc, apFee, apSubmitted, apReceipts, apRechecks, apApprovals, apOutcome>>

VARIABLES
  ccPc,         \* createClient: "idle", "awaitCode", "awaitCreds" or "done"
  ccFresh,      \* createClient: this.client was undefined when it started
  ccQueries,    \* createClient: the addresses getCode was asked for
  ccCode,       \* createClient: the code getCode resolved with
  ccDerivers,   \* createClient: the clients createOrDeriveApiKey was called on
  ccOutcome,    \* createClient: the settled promise
  poPc,         \* postOrder: "idle", "awaitSigned", "awaitPost" or "done"
  poArgs,       \* postOrder: its arguments
  poCreated,    \* postOrder: the createMarketOrder calls made, in order
  poSigned,     \* postOrder: the signed orders createMarketOrder resolved with
  poPosted,     \* postOrder: the client.postOrder calls made, in order
  poOutcome     \* postOrder: the settled promise

tradingVars == <<ccPc, ccFresh, ccQueries, ccCode, ccDerivers, ccOutcome,
                 poPc, poArgs, poCreated, poSigned, poPosted, poOutcome>>

polymarketVars == <<build, client, approvalVars, tradingVars>>

\* everything but the calls and the codec run
auxVars == <<probeVars, selVars, polymarketVars>>

vars == <<pc, args, sent, response, parsed, decoded, outcome,
          codecPc, codecIn, codecWord, codecOut, auxVars>>

NoArgs == [rpcUrl |-> "", walletAddress |-> <<>>, options |-> NoOptions]

\* no response was delivered (yet)
NoResponse == [received |-> FALSE, ok |-> FALSE, body |-> InvalidBody]

Pending == [kind |-> "pending", message |-> "", value |-> <<>>]

Resolved(v) == [kind |-> "resolved", message |-> "", value |-> v]

Rejected(m) == [kind |-> "rejected", message |-> m, value |-> <<>>]

\* errors the runtime raises, outside ERROR_CODES
FetchFailed == "TypeError: fetch failed"

NullDereference == "TypeError: Cannot read properties of null (reading 'error')"

NotAString == "TypeError: hexResult.replace is not a function"

\* ------------------------------------------------------ getSafeProxyAddress
\* variant: the option is ignored
OrDefaultIgnored(opt, fallback) == fallback

\* options?.x || fallback: an unset or empty property yields the fallback
OrDefault(opt, fallback) == IF opt.set /\ opt.val # "" THEN opt.val ELSE fallback

\* variant: the id member precedes params
BuildRpcRequestIdFirst(walletAddress, options) ==
  LET functionSignature ==
        OrDefault(options.functionSignature, COMPUTE_PROXY_ADDRESS_FUNCTION_SIGNATURE)
      safeProxyFactoryAddress ==
        OrDefault(options.safeProxyFactoryAddress, SAFE_PROXY_FACTORY_ADDRESS)
      functionSelector == getFunctionSelector(functionSignature)
      encodedAddress   == encodeAddress(walletAddress)
      data             == functionSelector \o encodedAddress
  IN  JObject(<< <<"jsonrpc", JString("2.0")>>,
                 <<"method", JString("eth_call")>>,
                 <<"id", JNumber(1)>>,
                 <<"params",
                   JArray(<< JObject(<< <<"to", JString(safeProxyFactoryAddress)>>,
                                        <<"data", JString(Text(data))>> >>),
                             JString("latest") >>)>> >>)

\* the eth_call payload for the factory's computeProxyAddress(address)
BuildRpcRequest(walletAddress, options) ==
  LET functionSignature ==
        OrDefault(options.functionSignature, COMPUTE_PROXY_ADDRESS_FUNCTION_SIGNATURE)
      safeProxyFactoryAddress ==
        OrDefault(options.safeProxyFactoryAddress, SAFE_PROXY_FACTORY_ADDRESS)
      functionSelector == getFunctionSelector(functionSignature)
      encodedAddress   == encodeAddress(walletAddress)
      data             == functionSelector \o encodedAddress
  IN  JObject(<< <<"jsonrpc", JString("2.0")>>,
                 <<"method", JString("eth_call")>>,
                 <<"params",
                   JArray(<< JObject(<< <<"to", JString(safeProxyFactoryAddress)>>,
                                        <<"data", JString(Text(data))>> >>),
                             JString("latest") >>)>>,
                 <<"id", JNumber(1)>> >>)

\* the arguments postJsonRpc passes to fetch
FetchArguments(rpcUrl, rpcRequest) ==
  [url     |-> rpcUrl,
   method  |-> "POST",
   headers |-> << <<"Content-Type", "application/json">> >>,
   body    |-> JSONstringify(rpcRequest)]

\* variant: tests the error's code instead of the error object
ErrorTruthyOnCode(rpcResponse) ==
  rpcResponse.error.kind = "object" /\ rpcResponse.error.code # 0

\* the conditions of JavaScript's if on the members of the parsed response
ErrorTruthy(rpcResponse) == rpcResponse.error.kind = "object"

\* variant: only a missing result counts as unusable
ResultTruthyDefinedOnly(rpcResponse) ==
  rpcResponse.result.kind \in {"string", "number"}

ResultTruthy(rpcResponse) ==
  \/ rpcResponse.result.kind = "string" /\ rpcResponse.result.str # <<>>
  \/ rpcResponse.result.kind = "number"

\* decodeAddress is reached with this parsed response
ReachesDecode(rpcResponse) ==
  /\ rpcResponse.kind # "null"
  /\ ~ErrorTruthy(rpcResponse)
  /\ ResultTruthy(rpcResponse)

\* variant: the result is looked at before the error
SettleWithResultFirst(rpcResponse) ==
  IF rpcResponse.kind = "null" THEN Rejected(NullDereference)
  ELSE IF ResultTruthy(rpcResponse) /\ rpcResponse.result.kind = "string"
       THEN Resolved(decodeAddress(rpcResponse.result.str))
  ELSE IF ErrorTruthy(rpcResponse)
       THEN Rejected(ERROR_CODES.RPC_ERROR \o ":" \o ToString(rpcResponse.error.code))
  ELSE IF ~ResultTruthy(rpcResponse) THEN Rejected(ERROR_CODES.RPC_INVALID_RESULT)
  ELSE Rejected(NotAString)

\* variant: a result shorter than an address is refused
SettleWithLengthCheck(rpcResponse) ==
  IF rpcResponse.kind = "null" THEN Rejected(NullDereference)
  ELSE IF ErrorTruthy(rpcResponse)
       THEN Rejected(ERROR_CODES.RPC_ERROR \o ":" \o ToString(rpcResponse.error.code))
  ELSE IF ~ResultTruthy(rpcResponse) THEN Rejected(ERROR_CODES.RPC_INVALID_RESULT)
  ELSE IF rpcResponse.result.kind # "string" THEN Rejected(NotAString)
  ELSE IF Len(replace0x(rpcResponse.result.str)) < AddrHexLen
       THEN Rejected(ERROR_CODES.RPC_INVALID_RESULT)
  ELSE Resolved(decodeAddress(rpcResponse.result.str))

\* getSafeProxyAddress after postJsonRpc returned rpcResponse
SettleWith(rpcResponse) ==
  IF rpcResponse.kind = "null" THEN Rejected(NullDereference)
  ELSE IF ErrorTruthy(rpcResponse)
       THEN Rejected(ERROR_CODES.RPC_ERROR \o ":" \o ToString(rpcResponse.error.code))
  ELSE IF ~ResultTruthy(rpcResponse) THEN Rejected(ERROR_CODES.RPC_INVALID_RESULT)
  ELSE IF rpcResponse.result.kind # "string" THEN Rejected(NotAString)
  ELSE Resolved(decodeAddress(rpcResponse.result.str))

\* variant: the request is sent a second time
IssueRequestsTwice(rpcUrl, rpcRequest) ==
  << FetchArguments(rpcUrl, rpcRequest), FetchArguments(rpcUrl, rpcRequest) >>

\* the requests postJsonRpc issues for one call
IssueRequests(rpcUrl, rpcRequest) == << FetchArguments(rpcUrl, rpcRequest) >>

\* variant: the request id is taken from a counter shared by the calls
getSafeProxyAddressCountingIds(c, a) ==
  /\ pc[c] = "idle"
  /\ args' = [args EXCEPT ![c] = a]
  /\ sent' = [sent EXCEPT ![c] =
                @ \o IssueRequests(a.rpcUrl,
                       JObject(<< <<"jsonrpc", JString("2.0")>>,
                                  <<"method", JString("eth_call")>>,
                                  <<"params", JArray(<< JString("latest") >>)>>,
                                  <<"id", JNumber(c)>> >>))]
  /\ pc' = [pc EXCEPT ![c] = "awaitFetch"]
  /\ UNCHANGED <<response, parsed, decoded, outcome, codecVars, auxVars>>

\* a call starts: builds the payload and hands it to fetch
getSafeProxyAddress(c, a) ==
  /\ pc[c] = "idle"
  /\ args' = [args EXCEPT ![c] = a]
  /\ sent' = [sent EXCEPT ![c] =
                @ \o IssueRequests(a.rpcUrl, BuildRpcRequest(a.walletAddress, a.options))]
  /\ pc' = [pc EXCEPT ![c] = "awaitFetch"]
  /\ UNCHANGED <<response, parsed, decoded, outcome, codecVars, auxVars>>

\* fetch rejects (no HTTP response): the rejection is the call's outcome
fetchRejects(c) ==
  /\ pc[c] = "awaitFetch"
  /\ outcome' = [outcome EXCEPT ![c] = Rejected(FetchFailed)]
  /\ pc' = [pc EXCEPT ![c] = "done"]
  /\ UNCHANGED <<args, sent, response, parsed, decoded, codecVars, auxVars>>

\* variant: the status check is missing
StatusAcceptedAlways(r) == TRUE

\* the response passes postJsonRpc's status check and its body is read
StatusAccepted(r) == r.ok

\* variant: the response is kept in a slot shared by the calls in flight
fetchResolvesShared(c, r) ==
  /\ pc[c] = "awaitFetch"
  /\ response' = [d \in Calls |-> IF pc[d] = "awaitFetch" THEN r ELSE response[d]]
  /\ IF ~StatusAccepted(r)
     THEN /\ outcome' = [outcome EXCEPT ![c] = Rejected(ERROR_CODES.RPC_REQUEST_FAILED)]
          /\ pc' = [pc EXCEPT ![c] = "done"]
          /\ UNCHANGED parsed
     ELSE /\ parsed' = [parsed EXCEPT ![c] = TRUE]
          /\ pc' = [pc EXCEPT ![c] = "awaitJson"]
          /\ UNCHANGED outcome
  /\ UNCHANGED <<args, sent, decoded, codecVars, auxVars>>

\* fetch resolves with r: status check, then response.json() is started
fetchResolves(c, r) ==
  /\ pc[c] = "awaitFetch"
  /\ response' = [response EXCEPT ![c] = r]
  /\ IF ~StatusAccepted(r)
     THEN /\ outcome' = [outcome EXCEPT ![c] = Rejected(ERROR_CODES.RPC_REQUEST_FAILED)]
          /\ pc' = [pc EXCEPT ![c] = "done"]
          /\ UNCHANGED parsed
     ELSE /\ parsed' = [parsed EXCEPT ![c] = TRUE]
          /\ pc' = [pc EXCEPT ![c] = "awaitJson"]
          /\ UNCHANGED outcome
  /\ UNCHANGED <<args, sent, decoded, codecVars, auxVars>>

\* postJsonRpc's catch around response.json()
ParseOutcome(body) ==
  IF body.kind = "invalid" THEN Rejected(ERROR_CODES.RPC_RESPONSE_EMPTY)
  ELSE SettleWith(body)

\* response.json() settles: postJsonRpc returns or throws, the call settles
jsonSettles(c) ==
  /\ pc[c] = "awaitJson"
  /\ outcome' = [outcome EXCEPT ![c] = ParseOutcome(response[c].body)]
  /\ decoded' = [decoded EXCEPT ![c] =
                   response[c].body.kind # "invalid" /\ ReachesDecode(response[c].body)]
  /\ pc' = [pc EXCEPT ![c] = "done"]
  /\ UNCHANGED <<args, sent, response, parsed, codecVars, auxVars>>

InitCalls ==
  /\ pc = [c \in Calls |-> "idle"]
  /\ args = [c \in Calls |-> NoArgs]
  /\ sent = [c \in Calls |-> <<>>]
  /\ response = [c \in Calls |-> NoResponse]
  /\ parsed = [c \in Calls |-> FALSE]
  /\ decoded = [c \in Calls |-> FALSE]
  /\ outcome = [c \in Calls |-> Pending]

CodecOff ==
  /\ codecPc = "off"
  /\ codecIn = <<>>
  /\ codecWord = <<>>
  /\ codecOut = <<>>

\* no probe has been started
ProbesIdle ==
  /\ probePc = [p \in Calls |-> "idle"]
  /\ probeArgs = [p \in Calls |-> [address |-> "", rpcUrl |-> ""]]
  /\ probeProviders = [p \in Calls |-> <<>>]
  /\ probeQueries = [p \in Calls |-> <<>>]
  /\ probeCode = [p \in Calls |-> ""]
  /\ probeOutcome = [p \in Calls |-> [kind |-> "pending", message |-> "", flag |-> FALSE]]

\* no selector run is under way
SelectorsOff ==
  /\ selPc = [c \in Calls |-> "off"]
  /\ selSig = [c \in Calls |-> ""]
  /\ selOut = [c \in Calls |-> <<>>]

\* ------------------------------------------------- the Polymarket class
\* src/src/polymarket.ts ("root", ethers v5) and
\* src/packages/polymarket/src/index.ts ("package", ethers v6)
Builds == {"root", "package"}

CLobHttpUrl == "https://clob.polymarket.com"

polymarketExchange == "0x4bFb41d5B3570DeFd03C39a9A4D8dE6Bd8B8982E"

polygonChainId == 137

\* this.signer.address
SignerAddress == "0xwallet"

Undefined == "undefined"

SignatureType == [EOA |-> "EOA", POLY_GNOSIS_SAFE |-> "POLY_GNOSIS_SAFE"]

OrderType == [FOK |-> "FOK"]

\* new ClobClient(host, chainId, signer, creds, signatureType, funderAddress)
ClobClient(host, chainId, signer, creds, signatureType, funderAddress) ==
  [host |-> host, chainId |-> chainId, signer |-> signer, creds |-> creds,
   signatureType |-> signatureType, funderAddress |-> funderAddress]

\* the client field before createClient has assigned it
NoClient == ClobClient(Undefined, 0, Undefined, Undefined, Undefined, Undefined)

\* a promise of a method of the class: pending, resolved with v or rejected
\* with message m; none stands for the value of a promise that has none
Running(none) == [kind |-> "pending", message |-> "", value |-> none]

Returned(v) == [kind |-> "resolved", message |-> "", value |-> v]

Thrown(m, none) == [kind |-> "rejected", message |-> m, value |-> none]

\* a bigint / BigNumber of gwei * 10^9 + wei, or null
Giga == 1000000000

BigInt(gwei, wei) == [kind |-> "bigint", gwei |-> gwei, wei |-> wei]

NoGasPrice == [kind |-> "null", gwei |-> 0, wei |-> 0]

\* a UserMarketOrder and its Partial<CreateOrderOptions>
UserMarketOrder(market, side, size, price) ==
  [market |-> market, side |-> side, size |-> size, price |-> price]

NoOptionsGiven == [tickSize |-> Undefined]

NoOrder == [order |-> UserMarketOrder("", "", "", ""), options |-> NoOptionsGiven]

\* the instance as the constructor of build b leaves it, no method started
Constructed(b) ==
  /\ build = b
  /\ client = NoClient
  /\ apPc = "idle"
  /\ apFee = NoGasPrice
  /\ apSubmitted = <<>>
  /\ apReceipts = <<>>
  /\ apRechecks = <<>>
  /\ apApprovals = <<>>
  /\ apOutcome = Running(FALSE)
  /\ ccPc = "idle"
  /\ ccFresh = TRUE
  /\ ccQueries = <<>>
  /\ ccCode = ""
  /\ ccDerivers = <<>>
  /\ ccOutcome = Running(NoClient)
  /\ poPc = "idle"
  /\ poArgs = NoOrder
  /\ poCreated = <<>>
  /\ poSigned = <<>>
  /\ poPosted = <<>>
  /\ poOutcome = Running("")

AuxOff == ProbesIdle /\ SelectorsOff /\ Constructed("package")

\* only the Polymarket instance is in use, in either build
InitPolymarket ==
  /\ InitCalls
  /\ CodecOff
  /\ ProbesIdle
  /\ SelectorsOff
  /\ \E b \in Builds : Constructed(b)

Init == InitCalls /\ CodecOff /\ AuxOff

Next ==
  \/ \E c \in Calls, a \in CallArgs : getSafeProxyAddress(c, a)
  \/ \E c \in Calls : fetchRejects(c)
  \/ \E c \in Calls, r \in Responses : fetchResolves(c, r)
  \/ \E c \in Calls : jsonSettles(c)

Spec == Init /\ [][Next]_vars

\* ------------------------------------------------------------- option runs
CustomFactory == "0x1111111111111111111111111111111111111111"

CustomSignature == "proxyFor(address)"

\* every way of passing an option: left out, empty, or a value
FactoryOptions == {Unset, Given(""), Given(CustomFactory)}

SignatureOptions == {Unset, Given(""), Given(CustomSignature)}

OptionArgs ==
  { [rpcUrl |-> RpcUrl, walletAddress |-> OwnerFixture,
     options |-> [safeProxyFactoryAddress |-> f, functionSignature |-> g]] :
      f \in FactoryOptions, g \in SignatureOptions }

OptionResponses ==
  { [received |-> TRUE, ok |-> TRUE,  body |-> ObjectBody(NoError, WordResult)],
    [received |-> TRUE, ok |-> FALSE, body |-> ObjectBody(ErrorObject(-32000), NoResult)] }

\* calls of getSafeProxyAddress with every combination of options
NextOptions ==
  \/ \E c \in Calls, a \in OptionArgs : getSafeProxyAddress(c, a)
  \/ \E c \in Calls : fetchRejects(c)
  \/ \E c \in Calls, r \in OptionResponses : fetchResolves(c, r)
  \/ \E c \in Calls : jsonSettles(c)

SpecOptions == Init /\ [][NextOptions]_vars

\* --------------------------------------------------------------- codec run
\* hex digits the codec inputs are built from
SeedChars == {"0", "7", "a", "F"}

\* the sequences of 1..n characters of SeedChars
SeedsUpTo(n) == UNION {[1..k -> SeedChars] : k \in 1..n}

\* the seed repeated to n characters
Cycle(seed, n) == [i \in 1..n |-> seed[((i - 1) % Len(seed)) + 1]]

Prefixes == {<<>>, Ox, <<"0", "X">>}

\* address strings: an optional prefix and up to MaxDigits hex digits
CodecInputs ==
  {p \o Cycle(seed, n) : p \in Prefixes, seed \in SeedsUpTo(MaxSeedLen), n \in 0..MaxDigits}

InitCodec ==
  /\ InitCalls
  /\ AuxOff
  /\ codecPc = "input"
  /\ codecIn \in CodecInputs
  /\ codecWord = <<>>
  /\ codecOut = <<>>

\* the address string is encoded into a call-data word
Encode ==
  /\ codecPc = "input"
  /\ codecWord' = encodeAddress(codecIn)
  /\ codecPc' = "encoded"
  /\ UNCHANGED <<codecIn, codecOut, callVars, auxVars>>

\* the word is decoded back into an address
Decode ==
  /\ codecPc = "encoded"
  /\ codecOut' = decodeAddress(codecWord)
  /\ codecPc' = "decoded"
  /\ UNCHANGED <<codecIn, codecWord, callVars, auxVars>>

NextCodec == Encode \/ Decode

SpecCodec == InitCodec /\ [][NextCodec]_vars

\* ------------------------------------------------------------ isGnosisSafe
ProbeAddresses == {"0xabc", "0xdef"}

ProbeUrls == {"http://rpc", "https://polygon-rpc.com"}

\* byte code a node may report: none, or a deployed contract's
Codes == {"0x", "0x1234", "0x00"}

ProbeFailed == "Error: could not detect code"

\* variant: only an empty string counts as no code
IsContractCodeNonEmpty(code) == code # ""

\* code !== "0x"
IsContractCode(code) == code # "0x"

\* a probe starts: builds a provider for rpcUrl and asks it for the code
isGnosisSafe(p, address, rpcUrl) ==
  /\ probePc[p] = "idle"
  /\ probeArgs' = [probeArgs EXCEPT ![p] = [address |-> address, rpcUrl |-> rpcUrl]]
  /\ probeProviders' = [probeProviders EXCEPT ![p] = Append(@, rpcUrl)]
  /\ probeQueries' = [probeQueries EXCEPT ![p] =
                        Append(@, [provider |-> rpcUrl, address |-> address])]
  /\ probePc' = [probePc EXCEPT ![p] = "awaitCode"]
  /\ UNCHANGED <<probeCode, probeOutcome, selVars, polymarketVars, callVars, codecVars>>

\* getCode resolves: the probe returns whether the code differs from "0x"
getCodeResolves(p, code) ==
  /\ probePc[p] = "awaitCode"
  /\ probeCode' = [probeCode EXCEPT ![p] = code]
  /\ probeOutcome' = [probeOutcome EXCEPT ![p] =
                        [kind |-> "resolved", message |-> "", flag |-> IsContractCode(code)]]
  /\ probePc' = [probePc EXCEPT ![p] = "done"]
  /\ UNCHANGED <<probeArgs, probeProviders, probeQueries, selVars, polymarketVars,
                 callVars, codecVars>>

\* getCode rejects: the rejection is the probe's outcome
getCodeRejects(p) ==
  /\ probePc[p] = "awaitCode"
  /\ probeOutcome' = [probeOutcome EXCEPT ![p] =
                        [kind |-> "rejected", message |-> ProbeFailed, flag |-> FALSE]]
  /\ probePc' = [probePc EXCEPT ![p] = "done"]
  /\ UNCHANGED <<probeArgs, probeProviders, probeQueries, probeCode,
                 selVars, polymarketVars, callVars, codecVars>>

NextProbe ==
  \/ \E p \in Calls, a \in ProbeAddresses, u \in ProbeUrls : isGnosisSafe(p, a, u)
  \/ \E p \in Calls, code \in Codes : getCodeResolves(p, code)
  \/ \E p \in Calls : getCodeRejects(p)

SpecProbe == Init /\ [][NextProbe]_vars

\* ---------------------------------------------------- getFunctionSelector
\* the default signature and the signatures with a tabulated digest
SelectorSignatures == {COMPUTE_PROXY_ADDRESS_FUNCTION_SIGNATURE} \cup DOMAIN Keccak256

\* no selector run has been made yet
InitSelector ==
  /\ InitCalls
  /\ CodecOff
  /\ ProbesIdle
  /\ Constructed("package")
  /\ selPc = [c \in Calls |-> "idle"]
  /\ selSig = [c \in Calls |-> ""]
  /\ selOut = [c \in Calls |-> <<>>]

\* run c calls getFunctionSelector(functionSignature)
callGetFunctionSelector(c, functionSignature) ==
  /\ selPc[c] = "idle"
  /\ selSig' = [selSig EXCEPT ![c] = functionSignature]
  /\ selOut' = [selOut EXCEPT ![c] = getFunctionSelector(functionSignature)]
  /\ selPc' = [selPc EXCEPT ![c] = "done"]
  /\ UNCHANGED <<probeVars, polymarketVars, callVars, codecVars>>

NextSelector ==
  \E c \in Calls, sig \in SelectorSignatures : callGetFunctionSelector(c, sig)

SpecSelector == InitSelector /\ [][NextSelector]_vars

\* ------------------------------------------------------------ approvalAll
\* the value of a decimal digit string
RECURSIVE DecimalValue(_)
DecimalValue(digits) ==
  IF digits = <<>> THEN 0
  ELSE 10 * DecimalValue(SubSeq(digits, 1, Len(digits) - 1))
       + (CHOOSE n \in 0..9 : ToString(n) = digits[Len(digits)])

\* parseUnits(value, "gwei"): an integer number of gwei, in wei
parseUnits(value, unit) ==
  IF unit = "gwei" THEN BigInt(DecimalValue(value), 0)
  ELSE BigInt(0, DecimalValue(value))

\* x * k (v6) / x.mul(k) (v5), for k up to 20000 and x below 10^5 gwei
mul(x, k) ==
  LET hi == x.wei \div 10000
      lo == x.wei % 10000
      t  == hi * k
      w  == (t % 100000) * 10000 + lo * k
  IN  BigInt(x.gwei * k + t \div 100000 + w \div Giga, w % Giga)

\* x / d (v6) / x.div(d) (v5): integer division, for d a divisor of 10^9
div(x, d) ==
  BigInt(x.gwei \div d, (x.gwei % d) * (Giga \div d) + x.wei \div d)

\* feeData.gasPrice ? ... : ...  -- a v5 BigNumber is an object and always
\* truthy, a v6 bigint is falsy when it is 0n; null is falsy in both
GasPriceProvided(b, gasPrice) ==
  /\ gasPrice.kind # "null"
  /\ b = "package" => gasPrice # BigInt(0, 0)

\* the gasPrice override approvalAll computes from the fee data
BufferedGasPrice(b, gasPrice) ==
  IF GasPriceProvided(b, gasPrice)
  THEN div(mul(gasPrice, 150), 100)
  ELSE parseUnits(<<"5", "0">>, "gwei")

\* variant: every status but 0 counts as success
ReceiptSucceededNonZero(status) == status # 0

\* receipt.status === 1
ReceiptSucceeded(status) == status = 1

\* receipt.status is null
StatusNull == -1

ApprovalFailed == "Approval failed"

\* a collaborator's promise rejected
CollaboratorFailed == "Error: collaborator failed"

\* approvalAll starts: asks the provider for the fee data
approvalAll ==
  /\ apPc \in {"idle", "done"}
  /\ apPc' = "awaitFeeData"
  /\ apFee' = NoGasPrice
  /\ apSubmitted' = <<>>
  /\ apReceipts' = <<>>
  /\ apRechecks' = <<>>
  /\ apApprovals' = <<>>
  /\ apOutcome' = Running(FALSE)
  /\ UNCHANGED <<build, client, tradingVars, probeVars, selVars, callVars, codecVars>>

\* getFeeData resolves: the gas price is computed and the approval submitted
getFeeDataResolves(gasPrice) ==
  /\ apPc = "awaitFeeData"
  /\ apFee' = gasPrice
  /\ apSubmitted' = Append(apSubmitted,
                        [operator |-> polymarketExchange,
                         approved |-> TRUE,
                         gasPrice |-> BufferedGasPrice(build, gasPrice),
                         gasLimit |-> 100000])
  /\ apPc' = "awaitSubmit"
  /\ UNCHANGED <<apReceipts, apRechecks, apApprovals, apOutcome,
                 build, client, tradingVars, probeVars, selVars, callVars, codecVars>>

\* a promise approvalAll awaits rejects: approvalAll rejects with it
approvalAllAwaitRejects ==
  /\ apPc \in {"awaitFeeData", "awaitSubmit", "awaitReceipt", "awaitRecheck"}
  /\ apOutcome' = Thrown(CollaboratorFailed, FALSE)
  /\ apPc' = "done"
  /\ UNCHANGED <<apFee, apSubmitted, apReceipts, apRechecks, apApprovals,
                 build, client, tradingVars, probeVars, selVars, callVars, codecVars>>

\* setApprovalForAll resolves with the transaction: tx.wait() is called
setApprovalForAllResolves ==
  /\ apPc = "awaitSubmit"
  /\ apPc' = "awaitReceipt"
  /\ UNCHANGED <<apFee, apSubmitted, apReceipts, apRechecks, apApprovals, apOutcome,
                 build, client, tradingVars, probeVars, selVars, callVars, codecVars>>

\* tx.wait() resolves with a receipt: on status 1 isApproved() is called,
\* otherwise approvalAll throws
waitResolves(status) ==
  /\ apPc = "awaitReceipt"
  /\ apReceipts' = Append(apReceipts, status)
  /\ IF ReceiptSucceeded(status)
     THEN /\ apRechecks' = Append(apRechecks,
                              [owner |-> SignerAddress, operator |-> polymarketExchange])
          /\ apPc' = "awaitRecheck"
          /\ UNCHANGED apOutcome
     ELSE /\ apOutcome' = Thrown(ApprovalFailed, FALSE)
          /\ apPc' = "done"
          /\ UNCHANGED apRechecks
  /\ UNCHANGED <<apFee, apSubmitted, apApprovals,
                 build, client, tradingVars, probeVars, selVars, callVars, codecVars>>

\* isApprovedForAll resolves: true is returned, false makes approvalAll throw
isApprovedResolves(approved) ==
  /\ apPc = "awaitRecheck"
  /\ apApprovals' = Append(apApprovals, approved)
  /\ apOutcome' = IF approved THEN Returned(TRUE) ELSE Thrown(ApprovalFailed, FALSE)
  /\ apPc' = "done"
  /\ UNCHANGED <<apFee, apSubmitted, apReceipts, apRechecks,
                 build, client, tradingVars, probeVars, selVars, callVars, codecVars>>

\* the gas prices the provider reports: null, 0, and values whose buffered
\* price is exact, rounded down, or carries from wei into gwei
GasPrices ==
  {NoGasPrice, BigInt(0, 0), BigInt(0, 1), BigInt(0, 3), BigInt(30, 0),
   BigInt(30, 1), BigInt(0, 999999999)}

Statuses == {0, 1, StatusNull}

NextApproval ==
  \/ approvalAll
  \/ \E g \in GasPrices : getFeeDataResolves(g)
  \/ approvalAllAwaitRejects
  \/ setApprovalForAllResolves
  \/ \E st \in Statuses : waitResolves(st)
  \/ \E f \in BOOLEAN : isApprovedResolves(f)

SpecApproval == InitPolymarket /\ [][NextApproval]_vars

\* ------------------------------------------------ createClient, postOrder
\* reading a method of this.client while the field is still undefined
ClientUndefined(method) ==
  "TypeError: Cannot read properties of undefined (reading '" \o method \o "')"

\* variant: the two signature types are exchanged
SignatureTypeForSwapped(isProxySafe) ==
  IF isProxySafe THEN SignatureType.EOA ELSE SignatureType.POLY_GNOSIS_SAFE

\* isProxySafe ? SignatureType.POLY_GNOSIS_SAFE : SignatureType.EOA
SignatureTypeFor(isProxySafe) ==
  IF isProxySafe THEN SignatureType.POLY_GNOSIS_SAFE ELSE SignatureType.EOA

\* isProxySafe ? address : undefined
FunderFor(isProxySafe, address) == IF isProxySafe THEN address ELSE Undefined

\* the client createClient builds for the code found at address
ClientFor(code, address, creds) ==
  ClobClient(CLobHttpUrl, polygonChainId, SignerAddress, creds,
             SignatureTypeFor(IsContractCode(code)),
             FunderFor(IsContractCode(code), address))

\* the client whose createOrDeriveApiKey is called: a bootstrap client built
\* without credentials in the package build, this.client in the root build
Deriver(b, code, address) ==
  IF b = "package" THEN ClientFor(code, address, Undefined) ELSE client

\* createClient starts: asks the provider for the code at the signer address
createClient ==
  /\ ccPc \in {"idle", "done"}
  /\ ccFresh' = (client = NoClient)
  /\ ccQueries' = << SignerAddress >>
  /\ ccCode' = ""
  /\ ccDerivers' = <<>>
  /\ ccOutcome' = Running(NoClient)
  /\ ccPc' = "awaitCode"
  /\ UNCHANGED <<build, client, poPc, poArgs, poCreated, poSigned, poPosted, poOutcome,
                 approvalVars, probeVars, selVars, callVars, codecVars>>

\* variant: the client that derives the credentials is stored at once
createClientCodeStoresDeriver(code) ==
  /\ ccPc = "awaitCode"
  /\ ccCode' = code
  /\ client' = ClientFor(code, SignerAddress, Undefined)
  /\ ccDerivers' = Append(ccDerivers, client')
  /\ ccPc' = "awaitCreds"
  /\ UNCHANGED <<ccFresh, ccQueries, ccOutcome,
                 build, poPc, poArgs, poCreated, poSigned, poPosted, poOutcome,
                 approvalVars, probeVars, selVars, callVars, codecVars>>

\* getCode resolves: the signature type is chosen and the credentials are
\* asked for
createClientCode(code) ==
  /\ ccPc = "awaitCode"
  /\ ccCode' = code
  /\ IF Deriver(build, code, SignerAddress) = NoClient
     THEN /\ ccOutcome' = Thrown(ClientUndefined("createOrDeriveApiKey"), NoClient)
          /\ ccPc' = "done"
          /\ UNCHANGED ccDerivers
     ELSE /\ ccDerivers' = Append(ccDerivers, Deriver(build, code, SignerAddress))
          /\ ccPc' = "awaitCreds"
          /\ UNCHANGED ccOutcome
  /\ UNCHANGED <<ccFresh, ccQueries,
                 build, client, poPc, poArgs, poCreated, poSigned, poPosted, poOutcome,
                 approvalVars, probeVars, selVars, callVars, codecVars>>

\* createOrDeriveApiKey resolves: the client is built, stored and returned
createClientCreds(creds) ==
  /\ ccPc = "awaitCreds"
  /\ client' = ClientFor(ccCode, SignerAddress, creds)
  /\ ccOutcome' = Returned(client')
  /\ ccPc' = "done"
  /\ UNCHANGED <<ccFresh, ccQueries, ccCode, ccDerivers,
                 build, poPc, poArgs, poCreated, poSigned, poPosted, poOutcome,
                 approvalVars, probeVars, selVars, callVars, codecVars>>

\* a promise createClient awaits rejects: createClient rejects with it
createClientAwaitRejects ==
  /\ ccPc \in {"awaitCode", "awaitCreds"}
  /\ ccOutcome' = Thrown(CollaboratorFailed, NoClient)
  /\ ccPc' = "done"
  /\ UNCHANGED <<ccFresh, ccQueries, ccCode, ccDerivers,
                 build, client, poPc, poArgs, poCreated, poSigned, poPosted, poOutcome,
                 approvalVars, probeVars, selVars, callVars, codecVars>>

\* variant: the order is submitted as good-till-cancelled
SubmitOrderGTC(signedOrder) ==
  [client |-> client, signedOrder |-> signedOrder, orderType |-> "GTC"]

\* this.client.postOrder(signedOrder, OrderType.FOK)
SubmitOrder(signedOrder) ==
  [client |-> client, signedOrder |-> signedOrder, orderType |-> OrderType.FOK]

\* postOrder starts: this.client.createMarketOrder(userMarketOrder, options)
postOrder(userMarketOrder, options) ==
  /\ poPc \in {"idle", "done"}
  /\ poArgs' = [order |-> userMarketOrder, options |-> options]
  /\ poSigned' = <<>>
  /\ poPosted' = <<>>
  /\ IF client = NoClient
     THEN /\ poCreated' = <<>>
          /\ poOutcome' = Thrown(ClientUndefined("createMarketOrder"), "")
          /\ poPc' = "done"
     ELSE /\ poCreated' = << [client |-> client, order |-> userMarketOrder,
                              options |-> options] >>
          /\ poOutcome' = Running("")
          /\ poPc' = "awaitSigned"
  /\ UNCHANGED <<build, client, ccPc, ccFresh, ccQueries, ccCode, ccDerivers, ccOutcome,
                 approvalVars, probeVars, selVars, callVars, codecVars>>

\* createMarketOrder resolves: the signed order is posted as fill-or-kill
createMarketOrderResolves(signedOrder) ==
  /\ poPc = "awaitSigned"
  /\ poSigned' = Append(poSigned, signedOrder)
  /\ poPosted' = Append(poPosted, SubmitOrder(signedOrder))
  /\ poPc' = "awaitPost"
  /\ UNCHANGED <<poArgs, poCreated, poOutcome,
                 build, client, ccPc, ccFresh, ccQueries, ccCode, ccDerivers, ccOutcome,
                 approvalVars, probeVars, selVars, callVars, codecVars>>

\* client.postOrder resolves: its result is returned
postOrderResolves(tx) ==
  /\ poPc = "awaitPost"
  /\ poOutcome' = Returned(tx)
  /\ poPc' = "done"
  /\ UNCHANGED <<poArgs, poCreated, poSigned, poPosted,
                 build, client, ccPc, ccFresh, ccQueries, ccCode, ccDerivers, ccOutcome,
                 approvalVars, probeVars, selVars, callVars, codecVars>>

\* a promise postOrder awaits rejects: postOrder rejects with it
postOrderAwaitRejects ==
  /\ poPc \in {"awaitSigned", "awaitPost"}
  /\ poOutcome' = Thrown(CollaboratorFailed, "")
  /\ poPc' = "done"
  /\ UNCHANGED <<poArgs, poCreated, poSigned, poPosted,
                 build, client, ccPc, ccFresh, ccQueries, ccCode, ccDerivers, ccOutcome,
                 approvalVars, probeVars, selVars, callVars, codecVars>>

\* the order of the postOrder test and one more, with and without options
Orders ==
  {UserMarketOrder("0xmarket", "YES", "1", "0.5"),
   UserMarketOrder("0xother", "NO", "2", "0.25")}

OrderOptions == {NoOptionsGiven, [tickSize |-> "0.01"]}

SignedOrders == {"signedOrder", "signedOrder2"}

ApiKeyCreds == {"creds", "creds2"}

Transactions == {"tx"}

NextTrading ==
  \/ createClient
  \/ \E code \in Codes : createClientCode(code)
  \/ \E creds \in ApiKeyCreds : createClientCreds(creds)
  \/ createClientAwaitRejects
  \/ \E o \in Orders, opt \in OrderOptions : postOrder(o, opt)
  \/ \E so \in SignedOrders : createMarketOrderResolves(so)
  \/ \E tx \in Transactions : postOrderResolves(tx)
  \/ postOrderAwaitRejects

SpecTrading == InitPolymarket /\ [][NextTrading]_vars

\* ============================================================== properties
Done(c) == pc[c] = "done"

\* the call received an ok response whose body parsed to a JSON object
OkObject(c) ==
  /\ Done(c)
  /\ response[c].received
  /\ response[c].ok
  /\ response[c].body.kind = "object"

\* the error member is missing or null
ErrorMissing(c) == response[c].body.error.kind \in {"absent", "null"}

\* the message the first error test expects, spelled out
RpcErrorMessage(code) ==
  CASE code = -32000 -> "RPC_ERROR:-32000"
    [] code = 0      -> "RPC_ERROR:0"
    [] OTHER         -> "RPC_ERROR:" \o ToString(code)

\* C1: an ok response whose body carries an error object with code c makes
\* the call fail with the message "RPC_ERROR:" followed by c, and no address
\* is returned.
C1_RpcErrorCarriesCode ==
  \A c \in Calls :
    OkObject(c) /\ response[c].body.error.kind = "object"
      => /\ outcome[c].kind = "rejected"
         /\ outcome[c].message = RpcErrorMessage(response[c].body.error.code)
         /\ outcome[c].value = <<>>

C1_Witness ==
  \E c \in Calls :
    /\ OkObject(c)
    /\ response[c].body.error = ErrorObject(0)
    /\ outcome[c] = Rejected("RPC_ERROR:0")

\* the result string without one leading "0x"
Remainder(r) ==
  IF Len(r) >= 2 /\ r[1] = "0" /\ r[2] = "x"
  THEN [i \in 1..(Len(r) - 2) |-> r[i + 2]]
  ELSE r

\* "0x" followed by the last 40 characters of the remainder of r
ExpectedAddress(r) ==
  LET rem == Remainder(r)
      m   == IF Len(rem) < 40 THEN Len(rem) ELSE 40
  IN  [i \in 1..(m + 2) |->
         IF i = 1 THEN "0" ELSE IF i = 2 THEN "x" ELSE rem[Len(rem) - (m + 2 - i)]]

\* C2: an ok response with a non-empty result string and no error makes the
\* call succeed with "0x" and the last 40 characters of the result (leading
\* "0x" removed); for a 32-byte word these are its right-aligned 20 bytes.
C2_ResultDecoded ==
  \A c \in Calls :
    /\ OkObject(c)
    /\ ErrorMissing(c)
    /\ response[c].body.result.kind = "string"
    /\ response[c].body.result.str # <<>>
    => LET r == response[c].body.result.str
       IN  /\ outcome[c].kind = "resolved"
           /\ outcome[c].value = ExpectedAddress(r)
           /\ (Len(Remainder(r)) = 64
                 => outcome[c].value = Ox \o SubSeq(Remainder(r), 25, 64))

C2_Witness ==
  \E c \in Calls :
    /\ OkObject(c)
    /\ response[c].body = ObjectBody(NoError, WordResult)
    /\ outcome[c] = Resolved(Ox \o ProxyDigits)

\* the request body the call must send, as JSON text
ExpectedBody(a) ==
  "{\"jsonrpc\":\"2.0\",\"method\":\"eth_call\",\"params\":[{\"to\":\""
  \o OrDefault(a.options.safeProxyFactoryAddress, SAFE_PROXY_FACTORY_ADDRESS)
  \o "\",\"data\":\""
  \o Text(getFunctionSelector(OrDefault(a.options.functionSignature,
                                        COMPUTE_PROXY_ADDRESS_FUNCTION_SIGNATURE))
          \o encodeAddress(a.walletAddress))
  \o "\"},\"latest\"],\"id\":1}"

\* the expected body of every call the model makes
ExpectedBodies == [a \in CallArgs |-> ExpectedBody(a)]

\* C3: every request of a call is a POST to rpcUrl with the JSON content
\* type whose body serialises jsonrpc, method, params ({to, data}, "latest")
\* and id 1 in that order, data being selector + encodeAddress(owner).
C3_RequestShape ==
  \A c \in Calls :
    \A i \in 1..Len(sent[c]) :
      /\ sent[c][i].url = args[c].rpcUrl
      /\ sent[c][i].method = "POST"
      /\ sent[c][i].headers = << <<"Content-Type", "application/json">> >>
      /\ sent[c][i].body = ExpectedBodies[args[c]]

\* the request of the repository's first test, byte for byte
C3_Witness ==
  \E c \in Calls :
    /\ Len(sent[c]) = 1
    /\ args[c].walletAddress = OwnerFixture
    /\ sent[c][1].url = "https://rpc.example"
    /\ sent[c][1].body =
         "{\"jsonrpc\":\"2.0\",\"method\":\"eth_call\",\"params\":[{\"to\":\"0xaacFeEa03eb1561C4e67d661e40682Bd20E3541b\",\"data\":\"0x12345678000000000000000000000000abc0000000000000000000000000000000000def\"},\"latest\"],\"id\":1}"

\* C4: a response that is not ok makes the call fail with RPC_REQUEST_FAILED
\* whatever its body holds, and the body is never parsed.
C4_NotOkFails ==
  \A c \in Calls :
    response[c].received /\ ~response[c].ok
      => /\ Done(c)
         /\ outcome[c] = Rejected("RPC_REQUEST_FAILED")
         /\ ~parsed[c]
         /\ ~decoded[c]

C4_Witness ==
  \E c \in Calls :
    /\ response[c].received
    /\ ~response[c].ok
    /\ response[c].body = ObjectBody(NoError, WordResult)
    /\ outcome[c] = Rejected("RPC_REQUEST_FAILED")

\* C5: an ok response whose body is missing, empty, not parsable, or parses
\* to no object (JSON null) makes the call fail with RPC_RESPONSE_EMPTY.
C5_EmptyBodyFails ==
  \A c \in Calls :
    /\ Done(c)
    /\ response[c].received
    /\ response[c].ok
    /\ response[c].body.kind \in {"invalid", "null"}
    => outcome[c] = Rejected("RPC_RESPONSE_EMPTY")

\* C6: an ok response whose body has no error and no usable result (absent
\* or the empty string) makes the call fail with RPC_INVALID_RESULT, and
\* decodeAddress is not applied.
C6_NoResultFails ==
  \A c \in Calls :
    /\ OkObject(c)
    /\ ErrorMissing(c)
    /\ \/ response[c].body.result.kind = "absent"
       \/ response[c].body.result = StringResult(<<>>)
    => /\ outcome[c] = Rejected("RPC_INVALID_RESULT")
       /\ ~decoded[c]

C6_Witness ==
  \E c \in Calls :
    /\ OkObject(c)
    /\ response[c].body = ObjectBody(NoError, StringResult(<<>>))
    /\ outcome[c] = Rejected("RPC_INVALID_RESULT")
    /\ ~decoded[c]

\* the failures a call can end in
FailureMessages ==
  {"RPC_REQUEST_FAILED", "RPC_RESPONSE_EMPTY", "RPC_INVALID_RESULT"}
  \cup {RpcErrorMessage(code) : code \in {-32000, 0}}

\* C7: a call issues exactly one HTTP request; once it has failed no
\* further request is sent and the failure stays its outcome, without an
\* address.
C7_SingleAttempt ==
  /\ [](\A c \in Calls : Len(sent[c]) = IF pc[c] = "idle" THEN 0 ELSE 1)
  /\ [][\A c \in Calls :
          outcome[c].kind = "rejected"
            => /\ sent'[c] = sent[c]
               /\ outcome'[c] = outcome[c]
               /\ outcome[c].value = <<>>
               /\ pc'[c] = "done"]_vars

C7_Witness ==
  \E c \in Calls :
    /\ Done(c)
    /\ outcome[c].kind = "rejected"
    /\ outcome[c].message \in FailureMessages
    /\ Len(sent[c]) = 1
    /\ \E d \in Calls : d # c /\ pc[d] = "awaitFetch"

\* the digits of an address string: the string without its 0x or 0X prefix
DigitsOf(s) ==
  IF Len(s) >= 2 /\ s[1] = "0" /\ s[2] \in {"x", "X"}
  THEN [i \in 1..(Len(s) - 2) |-> s[i + 2]]
  ELSE s

\* the lower-case form of a hex digit
LowerDigit(ch) ==
  CASE ch = "A" -> "a" [] ch = "B" -> "b" [] ch = "C" -> "c"
    [] ch = "D" -> "d" [] ch = "E" -> "e" [] ch = "F" -> "f"
    [] OTHER -> ch

\* C8: for an address string, with or without 0x prefix and in any letter
\* case, encodeAddress returns exactly 64 characters without 0x prefix that
\* end with the lower-cased digits of the address and start with zeros only.
C8_EncodePadsTo64 ==
  codecPc \in {"encoded", "decoded"} /\ Len(DigitsOf(codecIn)) <= 64
    => LET d == DigitsOf(codecIn)
       IN  /\ Len(codecWord) = 64
           /\ ~(codecWord[1] = "0" /\ codecWord[2] = "x")
           /\ \A i \in 1..Len(d) : codecWord[64 - Len(d) + i] = LowerDigit(d[i])
           /\ \A i \in 1..(64 - Len(d)) : codecWord[i] = "0"

C8_Witness ==
  /\ codecPc = "encoded"
  /\ codecIn = <<"0", "X">> \o Cycle(<<"F", "a">>, 40)
  /\ codecWord = Rep("0", 24) \o Cycle(<<"f", "a">>, 40)

HexChars ==
  {"0", "1", "2", "3", "4", "5", "6", "7", "8", "9",
   "a", "b", "c", "d", "e", "f", "A", "B", "C", "D", "E", "F"}

\* "0x" followed by 40 hex characters
ValidAddress(s) ==
  /\ Len(s) = 42
  /\ s[1] = "0"
  /\ s[2] = "x"
  /\ \A i \in 3..42 : s[i] \in HexChars

\* C9: for a syntactically valid 20-byte address,
\* decodeAddress(encodeAddress(addr)) is addr in lower case.
C9_RoundTrip ==
  codecPc = "decoded" /\ ValidAddress(codecIn)
    => /\ Len(codecOut) = 42
       /\ \A i \in 1..42 : codecOut[i] = LowerDigit(codecIn[i])

C9_Witness ==
  /\ codecPc = "decoded"
  /\ codecIn = Ox \o Cycle(<<"a", "F">>, 40)
  /\ codecOut = Ox \o Cycle(<<"a", "f">>, 40)

\* C10: decodeAddress never fails and checks no length: it strips at most
\* one leading 0x and returns 0x with the last 40 characters of the rest, the
\* whole rest when that is shorter, and getSafeProxyAddress returns this
\* value as its success.
C10_DecodeUnchecked ==
  \A c \in Calls :
    /\ OkObject(c)
    /\ ErrorMissing(c)
    /\ response[c].body.result.kind = "string"
    /\ response[c].body.result.str # <<>>
    => LET rem == Remainder(response[c].body.result.str)
           v   == outcome[c].value
       IN  /\ decoded[c]
           /\ outcome[c].kind = "resolved"
           /\ SubSeq(v, 1, 2) = Ox
           /\ Len(rem) < 40 => v = Ox \o rem
           /\ Len(rem) >= 40 => /\ Len(v) = 42
                                /\ \A i \in 1..40 : v[2 + i] = rem[Len(rem) - 40 + i]

\* a result of three digits is returned as a five-character address
C10_Witness ==
  \E c, d \in Calls :
    /\ OkObject(c)
    /\ response[c].body = ObjectBody(NoError, StringResult(Ox \o <<"a", "b", "c">>))
    /\ outcome[c] = Resolved(Ox \o <<"a", "b", "c">>)
    /\ OkObject(d)
    /\ response[d].body = ObjectBody(NoError, StringResult(Ox \o Ox \o <<"a", "b">>))
    /\ outcome[d] = Resolved(Ox \o Ox \o <<"a", "b">>)

\* the request body for a target, a signature and an owner, as JSON text
BodyFor(to, signature, owner) ==
  "{\"jsonrpc\":\"2.0\",\"method\":\"eth_call\",\"params\":[{\"to\":\"" \o to
  \o "\",\"data\":\"" \o Text(getFunctionSelector(signature) \o encodeAddress(owner))
  \o "\"},\"latest\"],\"id\":1}"

\* an option overrides the default whenever it is supplied
SuppliedOr(opt, default) == IF opt.set THEN opt.val ELSE default

\* an option overrides the default whenever it is supplied and not empty
NonEmptyOr(opt, default) == IF opt.set /\ opt.val # "" THEN opt.val ELSE default

SuppliedBodies ==
  [a \in OptionArgs |->
     BodyFor(SuppliedOr(a.options.safeProxyFactoryAddress, SAFE_PROXY_FACTORY_ADDRESS),
             SuppliedOr(a.options.functionSignature,
                        COMPUTE_PROXY_ADDRESS_FUNCTION_SIGNATURE),
             a.walletAddress)]

NonEmptyBodies ==
  [a \in OptionArgs |->
     BodyFor(NonEmptyOr(a.options.safeProxyFactoryAddress, SAFE_PROXY_FACTORY_ADDRESS),
             NonEmptyOr(a.options.functionSignature,
                        COMPUTE_PROXY_ADDRESS_FUNCTION_SIGNATURE),
             a.walletAddress)]

\* C11 as stated: every supplied functionSignature determines the selector
\* and every supplied safeProxyFactoryAddress is the request's to, each
\* independently of the other; an option left out yields its default.
C11_SuppliedOverrides ==
  \A c \in Calls :
    \A i \in 1..Len(sent[c]) : sent[c][i].body = SuppliedBodies[args[c]]

\* C11 amended: every supplied non-empty functionSignature determines the
\* selector and every supplied non-empty safeProxyFactoryAddress is the
\* request's to, each independently; an option left out or empty yields its
\* default.
C11_NonEmptyOverrides ==
  \A c \in Calls :
    \A i \in 1..Len(sent[c]) : sent[c][i].body = NonEmptyBodies[args[c]]

\* an empty signature with a custom factory: default selector, custom target
C11_Witness ==
  \E c \in Calls :
    /\ Len(sent[c]) = 1
    /\ args[c].options.functionSignature = Given("")
    /\ args[c].options.safeProxyFactoryAddress = Given(CustomFactory)
    /\ sent[c][1].body =
         "{\"jsonrpc\":\"2.0\",\"method\":\"eth_call\",\"params\":[{\"to\":\"0x1111111111111111111111111111111111111111\",\"data\":\"0x12345678000000000000000000000000abc0000000000000000000000000000000000def\"},\"latest\"],\"id\":1}"

\* C12: isGnosisSafe builds one provider for rpcUrl, asks it once for the
\* code of the address, and returns false when the code is "0x" and true for
\* every other non-empty code; an address without code is never a contract.
C12_ProbeReportsCode ==
  \A p \in Calls :
    /\ probePc[p] # "idle"
         => /\ probeProviders[p] = << probeArgs[p].rpcUrl >>
            /\ probeQueries[p] =
                 << [provider |-> probeArgs[p].rpcUrl, address |-> probeArgs[p].address] >>
    /\ probePc[p] = "idle" => probeProviders[p] = <<>> /\ probeQueries[p] = <<>>
    /\ probeOutcome[p].kind = "resolved"
         => /\ probeCode[p] = "0x" => probeOutcome[p].flag = FALSE
            /\ probeCode[p] \in {"0x1234", "0x00"} => probeOutcome[p].flag = TRUE

C12_Witness ==
  \E p, q \in Calls :
    /\ probeCode[p] = "0x"
    /\ probeOutcome[p] = [kind |-> "resolved", message |-> "", flag |-> FALSE]
    /\ probeCode[q] = "0x1234"
    /\ probeOutcome[q] = [kind |-> "resolved", message |-> "", flag |-> TRUE]

SoloOutcome(r) ==
  IF ~r.received THEN Rejected("TypeError: fetch failed")
  ELSE IF ~r.ok THEN Rejected("RPC_REQUEST_FAILED")
  ELSE IF r.body.kind = "invalid" THEN Rejected("RPC_RESPONSE_EMPTY")
  ELSE IF r.body.kind = "null"
       THEN Rejected("TypeError: Cannot read properties of null (reading 'error')")
  ELSE IF r.body.error.kind = "object" THEN Rejected(RpcErrorMessage(r.body.error.code))
  ELSE IF r.body.result.kind = "absent" \/ r.body.result = StringResult(<<>>)
       THEN Rejected("RPC_INVALID_RESULT")
  ELSE IF r.body.result.kind = "number"
       THEN Rejected("TypeError: hexResult.replace is not a function")
  ELSE Resolved(ExpectedAddress(r.body.result.str))

SoloOutcomes == [r \in Responses \cup {NoResponse} |-> SoloOutcome(r)]

\* the state of one call
CallState(c) == <<pc[c], args[c], sent[c], response[c], parsed[c], decoded[c], outcome[c]>>

\* C14: calls share no mutable state: however two calls in flight
\* interleave, a step of one call leaves the other untouched, and the
\* outcome of a call is the one its own response gives when it runs alone.
C14_NoSharedState ==
  /\ [](\A c \in Calls : Done(c) => outcome[c] = SoloOutcomes[response[c]])
  /\ [][\A c, d \in Calls :
          c # d /\ pc'[c] # pc[c] => CallState(d)' = CallState(d)]_vars

\* the second call has settled while the first, started earlier with other
\* arguments, still waits for its response
C14_Witness ==
  \E c, d \in Calls :
    /\ c # d
    /\ pc[c] = "awaitJson"
    /\ Done(d)
    /\ args[c] # args[d]
    /\ response[c] # response[d]
    /\ outcome[d].kind = "resolved"
    /\ outcome[c].kind = "pending"

\* C15: approvalAll returns true only when the receipt has status 1 and the
\* re-check returned true; whenever a receipt was obtained and its status is
\* not 1 or the re-check returned false, it throws "Approval failed"; the
\* re-check is made only after the receipt is obtained.
C15_ApprovalOutcome ==
  /\ apOutcome.kind = "resolved"
       => /\ apOutcome.value = TRUE
          /\ apReceipts = << 1 >>
          /\ apApprovals = << TRUE >>
  /\ apPc = "done" /\ apReceipts # <<>>
       /\ (apReceipts[1] # 1 \/ apApprovals = << FALSE >>)
       => apOutcome = Thrown("Approval failed", FALSE)
  /\ apRechecks # <<>> => apReceipts # <<>>
  /\ Len(apRechecks) <= 1

C15_Witness ==
  /\ apPc = "done"
  /\ apReceipts = << 1 >>
  /\ apRechecks = << [owner |-> SignerAddress, operator |-> polymarketExchange] >>
  /\ apApprovals = << TRUE >>
  /\ apOutcome = Returned(TRUE)

\* x + y and floor(x / 2) on gwei/wei pairs
Plus(x, y) ==
  BigInt(x.gwei + y.gwei + (x.wei + y.wei) \div Giga, (x.wei + y.wei) % Giga)

Half(x) == BigInt(x.gwei \div 2, (x.gwei % 2) * (Giga \div 2) + x.wei \div 2)

\* floor(150 * x / 100) = x + floor(x / 2)
BufferedBy50Percent(x) == Plus(x, Half(x))

\* C16: approvalAll submits setApprovalForAll(exchange, true) exactly once,
\* with gasLimit 100000 and the provider's gasPrice * 150 div 100 whenever
\* the fee data has a gasPrice, and 50 gwei only when it has none.
C16_GasPriceBuffered ==
  /\ Len(apSubmitted) <= 1
  /\ apPc \in {"awaitSubmit", "awaitReceipt", "awaitRecheck"} => Len(apSubmitted) = 1
  /\ \A i \in 1..Len(apSubmitted) :
       /\ apSubmitted[i].operator = "0x4bFb41d5B3570DeFd03C39a9A4D8dE6Bd8B8982E"
       /\ apSubmitted[i].approved = TRUE
       /\ apSubmitted[i].gasLimit = 100000
       /\ apSubmitted[i].gasPrice =
            IF apFee.kind = "null" THEN BigInt(50, 0) ELSE BufferedBy50Percent(apFee)

\* C17: postOrder first calls createMarketOrder with the order and options
\* it was given, and only after that resolved calls the client's postOrder,
\* once, with the signed order returned and order type FOK; when
\* createMarketOrder fails nothing is submitted.
C17_OrderThenPost ==
  /\ Len(poCreated) <= 1 /\ Len(poSigned) <= 1 /\ Len(poPosted) <= 1
  /\ \A i \in 1..Len(poCreated) :
       /\ poCreated[i].order = poArgs.order
       /\ poCreated[i].options = poArgs.options
  /\ poPc = "awaitSigned" => Len(poCreated) = 1 /\ poPosted = <<>>
  /\ poPc = "awaitPost" => Len(poPosted) = 1
  /\ \A i \in 1..Len(poPosted) :
       /\ Len(poCreated) = 1
       /\ Len(poSigned) = 1
       /\ poPosted[i].signedOrder = poSigned[1]
       /\ poPosted[i].orderType = "FOK"
  /\ poSigned = <<>> => poPosted = <<>>

C17_Witness ==
  /\ poPc = "done"
  /\ poArgs = [order |-> UserMarketOrder("0xmarket", "YES", "1", "0.5"),
               options |-> [tickSize |-> "0.01"]]
  /\ Len(poCreated) = 1
  /\ poSigned = << "signedOrder" >>
  /\ Len(poPosted) = 1
  /\ poPosted[1].signedOrder = "signedOrder"
  /\ poOutcome = Returned("tx")

\* the order was rejected while signing and nothing reached the order book
C17_WitnessNotSubmitted ==
  /\ poPc = "done"
  /\ Len(poCreated) = 1
  /\ poSigned = <<>>
  /\ poPosted = <<>>
  /\ poOutcome.kind = "rejected"

\* C18: createClient on a freshly constructed instance, with the provider
\* and the order-book collaborator succeeding, resolves: it obtained the
\* credentials through createOrDeriveApiKey, built the client with them,
\* stored it and returned it, and a following postOrder uses that client.
C18_FreshCreateClientSucceeds ==
  /\ [](ccPc = "done" /\ ccFresh /\ ccOutcome.message # "Error: collaborator failed"
          => /\ ccOutcome.kind = "resolved"
             /\ Len(ccDerivers) = 1
             /\ ccOutcome.value.creds \in ApiKeyCreds
             /\ client = ccOutcome.value)
  /\ [][ccPc = "done" /\ ccOutcome.kind = "resolved"
          /\ poPc \in {"idle", "done"} /\ poPc' \notin {"idle", "done"}
          => poCreated'[1].client = ccOutcome.value]_vars

\* C19: the client createClient builds has signature type POLY_GNOSIS_SAFE
\* and the signer's address as funder exactly when the code at the signer's
\* address is not "0x", and EOA with no funder exactly when it is "0x"; the
\* client the credentials are derived with has the same two settings.
C19_SignatureTypeFollowsCode ==
  /\ ccPc # "idle" => ccQueries = << "0xwallet" >>
  /\ \A i \in 1..Len(ccDerivers) :
       IF ccCode = "0x"
       THEN ccDerivers[i].signatureType = "EOA"
            /\ ccDerivers[i].funderAddress = Undefined
       ELSE ccDerivers[i].signatureType = "POLY_GNOSIS_SAFE"
            /\ ccDerivers[i].funderAddress = "0xwallet"
  /\ ccOutcome.kind = "resolved"
       => /\ Len(ccDerivers) = 1
          /\ ccOutcome.value.signatureType = ccDerivers[1].signatureType
          /\ ccOutcome.value.funderAddress = ccDerivers[1].funderAddress
          /\ ccOutcome.value.signatureType = "POLY_GNOSIS_SAFE" <=> ccCode # "0x"
          /\ ccOutcome.value.signatureType = "EOA" <=> ccCode = "0x"
          /\ ccOutcome.value.funderAddress = "0xwallet" <=> ccCode # "0x"
          /\ ccOutcome.value.funderAddress = Undefined <=> ccCode = "0x"

C19_Witness ==
  /\ ccPc = "done"
  /\ ccCode = "0x1234"
  /\ ccOutcome.kind = "resolved"
  /\ ccOutcome.value.signatureType = "POLY_GNOSIS_SAFE"
  /\ ccOutcome.value.funderAddress = SignerAddress
  /\ ccOutcome.value.creds = "creds"
  /\ ccDerivers[1].creds = Undefined

\* the signer is an externally owned account
C19_WitnessEOA ==
  /\ ccPc = "done"
  /\ ccCode = "0x"
  /\ ccOutcome.kind = "resolved"
  /\ ccOutcome.value.signatureType = "EOA"
  /\ ccOutcome.value.funderAddress = Undefined

\* the 4-byte selectors of the signatures, as published for the ABI, and
\* the one the request test expects for the default signature
GoldenSelectors ==
     "computeProxyAddress(address)" :> "0x12345678"
  @@ "" :> "0xc5d24601"
  @@ "balanceOf(address)" :> "0x70a08231"
  @@ "approve(address,uint256)" :> "0x095ea7b3"
  @@ "setApprovalForAll(address,bool)" :> "0xa22cb465"
  @@ "isApprovedForAll(address,address)" :> "0xe985e9c5"
  @@ "totalSupply()" :> "0x18160ddd"
  @@ "owner()" :> "0x8da5cb5b"
  @@ "name()" :> "0x06fdde03"
  @@ "decimals()" :> "0x313ce567"

\* C20: getFunctionSelector returns the first 10 characters of the hash of
\* the signature: "0x" and the first 8 hex digits of the digest; the same
\* signature yields the same selector in every run.
C20_SelectorIsHashPrefix ==
  /\ \A c \in Calls :
       selPc[c] = "done"
         => /\ Len(selOut[c]) = 10
            /\ selOut[c][1] = "0" /\ selOut[c][2] = "x"
            /\ \A i \in 3..10 : selOut[c][i] \in HexChars
            /\ \A i \in 1..10 : selOut[c][i] = ethersId(selSig[c])[i]
            /\ Text(selOut[c]) = GoldenSelectors[selSig[c]]
  /\ \A c, d \in Calls :
       selPc[c] = "done" /\ selPc[d] = "done" /\ selSig[c] = selSig[d]
         => selOut[c] = selOut[d]

C20_Witness ==
  \E c, d \in Calls :
    /\ c # d
    /\ selPc[c] = "done" /\ selPc[d] = "done"
    /\ selSig[c] = "setApprovalForAll(address,bool)"
    /\ selSig[d] = selSig[c]
    /\ Text(selOut[c]) = "0xa22cb465"
    /\ selOut[d] = selOut[c]

\* C21: a parsed response that carries both an error object and a result
\* string makes the call fail with RPC_ERROR:<code>, and the result is
\* neither decoded nor returned; the failure checks apply in the order HTTP
\* status, body parse, error object, result presence.
C21_ErrorBeforeResult ==
  \A c \in Calls :
    Done(c) /\ response[c].received
      => LET r == response[c]
             b == r.body
         IN  /\ r.ok /\ b.kind = "object" /\ b.error.kind = "object"
                  /\ b.result.kind = "string" /\ b.result.str # <<>>
                  => /\ outcome[c] = Rejected(RpcErrorMessage(b.error.code))
                     /\ ~decoded[c]
             /\ ~r.ok => outcome[c] = Rejected("RPC_REQUEST_FAILED") /\ ~parsed[c]
             /\ r.ok /\ b.kind = "invalid"
                  => outcome[c] = Rejected("RPC_RESPONSE_EMPTY") /\ parsed[c]
             /\ r.ok /\ b.kind = "object" /\ b.error.kind = "object"
                  => outcome[c] = Rejected(RpcErrorMessage(b.error.code))
             /\ r.ok /\ b.kind = "object" /\ b.error.kind # "object"
                  /\ (b.result.kind = "absent" \/ b.result = StringResult(<<>>))
                  => outcome[c] = Rejected("RPC_INVALID_RESULT")

C21_Witness ==
  \E c \in Calls :
    /\ Done(c)
    /\ response[c].received /\ response[c].ok
    /\ response[c].body = ObjectBody(ErrorObject(-32000), WordResult)
    /\ outcome[c] = Rejected("RPC_ERROR:-32000")
    /\ ~decoded[c]

\* C22: no order reaches the order book unless a createClient call on the
\* instance has completed successfully before: the client field is assigned
\* only by a createClient that resolves with that client, every call made
\* on the order book is made on an assigned client, and a postOrder started
\* while the field is unassigned fails at once and submits nothing.
C22_NoOrderWithoutClient ==
  /\ [](/\ \A i \in 1..Len(poPosted) : client # NoClient /\ poPosted[i].client # NoClient
        /\ \A i \in 1..Len(poCreated) : client # NoClient /\ poCreated[i].client # NoClient
        /\ client # NoClient => client.creds \in ApiKeyCreds)
  /\ [][/\ client' # client
             => /\ ccPc = "awaitCreds"
                /\ ccPc' = "done"
                /\ ccOutcome' = Returned(client')
        /\ client = NoClient /\ poPc \in {"idle", "done"} /\ poArgs' # poArgs
             => /\ poPc' = "done"
                /\ poOutcome'.kind = "rejected"
                /\ poCreated' = <<>>
                /\ poPosted' = <<>>]_vars

\* an order is at the order book, posted through the client the completed
\* createClient stored
C22_Witness ==
  /\ poPc = "awaitPost"
  /\ Len(poPosted) = 1
  /\ poPosted[1].client = client
  /\ client # NoClient
  /\ ccPc = "done"
  /\ ccOutcome = Returned(client)

\* a postOrder made before any createClient has failed without submitting
C22_WitnessBefore ==
  /\ client = NoClient
  /\ ccPc = "idle"
  /\ poPc = "done"
  /\ poOutcome.kind = "rejected"
  /\ poCreated = <<>>
  /\ poPosted = <<>>

====
